---- MODULE Spec2Model ----
(***************************************************************************)
(* Model of the Teseo GPS driver (jancumps/gps_teseo_lib).                 *)
(*                                                                         *)
(* Text is modelled as a sequence of one-character strings, so that        *)
(* std::string::find, substr and starts_with are computed on the bytes.    *)
(* C++ positions are 0-based; TLA+ sequences are 1-based: byte i of the    *)
(* C++ string is s[i+1] here.                                              *)
(***************************************************************************)
EXTENDS Naturals, Integers, Sequences, FiniteSets

VARIABLES
    writer,             \* teseo::writer   : Callback::callback_ ("nullptr" or "set")
    reader,             \* teseo::reader   : Callback::callback_
    resetter,           \* teseo::resetter : Callback::callback_
    single_line_parser, \* teseo::single_line_parser, std::array<std::string,2>
    strings,            \* the caller-owned output container handed to parse
    pc,                 \* where the program is: "idle", inside init, or stopped
    calls,              \* handler invocations made by the operation in progress
    last                \* inputs and outputs of the most recent operation

vars == <<writer, reader, resetter, single_line_parser, strings, pc, calls, last>>

----------------------------------------------------------------------------
(* Bounds of the model. *)

\* largest capacity (strings.size()) of a caller-owned output container
MaxCap == 2
\* largest number of separator-terminated sentences in a generated reply
MaxSentences == 2
\* largest number of whitespace chunks in a whitespace-only buffer
MaxWs == 3
\* most reads the restart-wait loop of init makes in the model
MaxReads == 2

----------------------------------------------------------------------------
(* Text primitives: std::string and std::size_t. *)

CR == "\r"
LF == "\n"
CRLF == <<CR, LF>>

\* std::size_t is an unsigned type; arithmetic on it wraps.  The width used
\* here is 30 bits: every width wider than a buffer length plus two gives the
\* same results, and this one keeps sums inside TLC's integers.
SizeMod == 1073741824

npos == SizeMod - 1

SizeAdd(a, b) == (a + b) % SizeMod

SizeSub(a, b) == ((a - b) + SizeMod) % SizeMod

Min(a, b) == IF a <= b THEN a ELSE b

Minimum(S) == CHOOSE m \in S : \A x \in S : m <= x

length(s) == Len(s)

\* s.find(pat, pos): first position >= pos where pat occurs, else npos
find(s, pat, pos) ==
    LET hits == { i \in pos..(Len(s) - Len(pat)) : SubSeq(s, i + 1, i + Len(pat)) = pat }
    IN  IF hits = {} THEN npos ELSE Minimum(hits)

\* s.substr(pos, n) throws std::out_of_range when pos > s.size()
substr_throws(s, pos) == pos > Len(s)

\* s.substr(pos, n) for pos <= s.size(): at most n bytes from pos
substr(s, pos, n) == SubSeq(s, pos + 1, pos + Min(n, Len(s) - pos))

starts_with(s, prefix) ==
    /\ Len(prefix) <= Len(s)
    /\ SubSeq(s, 1, Len(prefix)) = prefix

----------------------------------------------------------------------------
(* Command registry: nmea_rr is a std::pair (first = request, second =     *)
(* signature).                                                             *)

gll == [first  |-> <<"$", "P", "S", "T", "M", "N", "M", "E", "A", "R", "E", "Q", "U", "E", "S", "T", ",", "1", "0", "0", "0", "0", "0", ",", "0", CR, LF>>,
        second |-> <<"G", "L", "L", ",">>]

gsv == [first  |-> <<"$", "P", "S", "T", "M", "N", "M", "E", "A", "R", "E", "Q", "U", "E", "S", "T", ",", "8", "0", "0", "0", "0", ",", "0", CR, LF>>,
        second |-> <<"G", "S", "V", ",">>]

gsa == [first  |-> <<"$", "P", "S", "T", "M", "N", "M", "E", "A", "R", "E", "Q", "U", "E", "S", "T", ",", "4", ",", "0", CR, LF>>,
        second |-> <<"G", "S", "A", ",">>]

gga == [first  |-> <<"$", "P", "S", "T", "M", "N", "M", "E", "A", "R", "E", "Q", "U", "E", "S", "T", ",", "2", ",", "0", CR, LF>>,
        second |-> <<"G", "G", "A", ",">>]

rmc == [first  |-> <<"$", "P", "S", "T", "M", "N", "M", "E", "A", "R", "E", "Q", "U", "E", "S", "T", ",", "4", "0", ",", "0", CR, LF>>,
        second |-> <<"R", "M", "C", ",">>]

vtg == [first  |-> <<"$", "P", "S", "T", "M", "N", "M", "E", "A", "R", "E", "Q", "U", "E", "S", "T", ",", "1", "0", ",", "0", CR, LF>>,
        second |-> <<"V", "T", "G", ",">>]

CommandNames == {"gll", "gsv", "gsa", "gga", "rmc", "vtg"}

Command(name) ==
    CASE name = "gll" -> gll
      [] name = "gsv" -> gsv
      [] name = "gsa" -> gsa
      [] name = "gga" -> gga
      [] name = "rmc" -> rmc
      [] name = "vtg" -> vtg

----------------------------------------------------------------------------
(* teseo::parse_multiline_reply *)

\* command.first.substr(0, command.first.length()-2): the request without
\* its two-byte terminator
request_prefix(command) ==
    substr(command.first, 0, SizeSub(length(command.first), 2))

valid_init_true == TRUE

\* bool valid = false;
valid_init == FALSE

\* teseo.cpp: if (new_string_index == s.length() - 2)
is_status_line(new_string_index, s) ==
    new_string_index = SizeSub(length(s), 2)

\* teseo.h: if (new_string_index == std::string::npos)
is_status_line_h(new_string_index, s) ==
    new_string_index = npos

\* valid = s.substr(string_index, s.length() - string_index)
\*            .starts_with(command.first.substr(0, command.first.length()-2));
\* (the GCC >= 10 branch: std::span, which teseo.cpp needs, is not in an
\* older libstdc++)
status_valid(s, string_index, command) ==
    starts_with(substr(s, string_index, SizeSub(length(s), string_index)),
                request_prefix(command))

sentence_valid_any(sentence, command) == TRUE

\* valid = strings[vector_index].length() >= 7
\*         && strings[vector_index].substr(3, 4).starts_with(command.second);
sentence_valid(sentence, command) ==
    /\ length(sentence) >= 7
    /\ starts_with(substr(sentence, 3, 4), command.second)

invalid_index_kept(vector_index) == vector_index

\* if (!valid) { vector_index = 0; break; }
invalid_index(vector_index) == 0

\* The build: CMAKE_CXX_FLAGS carries no -DNDEBUG, so assert() is compiled in.
NDEBUG == FALSE

loop_continues_le(vector_index, maxelements) == vector_index <= maxelements

\* for (vector_index = 0; vector_index < maxelements; vector_index++)
loop_continues(vector_index, maxelements) == vector_index < maxelements

skip_separator_3(new_string_index) == SizeAdd(new_string_index, 3)

\* string_index = new_string_index + 2; // skip the separator
skip_separator(new_string_index) == SizeAdd(new_string_index, 2)

\* The for loop of parse_multiline_reply, one iteration per call.  `header`
\* selects the status-line test of teseo.h instead of that of teseo.cpp; the
\* two bodies are otherwise the same text.  `status` and `status_index`
\* record whether the status branch was taken and where the cursor was,
\* `cursors` the value of string_index in each iteration made and
\* `string_index` its value when the loop is left, `asserted`
\* whether assert(vector_index < maxelements) failed, `threw` whether substr
\* threw std::out_of_range.
RECURSIVE parse_loop(_, _, _, _, _, _, _)
parse_loop(header, out, s, command, vector_index, string_index, valid) ==
    LET maxelements == Len(out)
        ends(o, vi, v, st, thr, asrt, cs) ==
            [strings |-> o, vector_index |-> vi, valid |-> v, status |-> st,
             status_index |-> IF st THEN string_index ELSE 0,
             threw |-> thr, asserted |-> asrt, cursors |-> cs,
             string_index |-> string_index]
    IN
    IF ~loop_continues(vector_index, maxelements)
    THEN ends(out, vector_index, valid, FALSE, FALSE, FALSE, <<>>)
    ELSE
    LET new_string_index == find(s, CRLF, string_index)
        at_status == IF header THEN is_status_line_h(new_string_index, s)
                               ELSE is_status_line(new_string_index, s)
    IN  IF at_status
        THEN IF substr_throws(s, string_index)
             THEN ends(out, vector_index, valid, FALSE, TRUE, FALSE, <<string_index>>)
             ELSE ends(out, vector_index, status_valid(s, string_index, command),
                       TRUE, FALSE, FALSE, <<string_index>>)
        ELSE IF ~NDEBUG /\ ~(vector_index < maxelements)
        THEN ends(out, vector_index, valid, FALSE, FALSE, TRUE, <<string_index>>)
        ELSE IF substr_throws(s, string_index)
        THEN ends(out, vector_index, valid, FALSE, TRUE, FALSE, <<string_index>>)
        ELSE
        LET sentence == substr(s, string_index,
                               SizeSub(SizeAdd(new_string_index, 2), string_index))
            stored == [out EXCEPT ![vector_index + 1] = sentence]
            ok == sentence_valid(sentence, command)
        IN  IF ~ok
            THEN ends(stored, invalid_index(vector_index), FALSE,
                      FALSE, FALSE, FALSE, <<string_index>>)
            ELSE LET r == parse_loop(header, stored, s, command, vector_index + 1,
                                     skip_separator(new_string_index), ok)
                 IN  [r EXCEPT !.cursors = <<string_index>> \o @]

discard_none(out, count) == out

\* std::for_each(strings.begin() + count, strings.end(),
\*               [](auto &discard) { discard = std::string(); });
discard_from(out, count) ==
    [i \in 1..Len(out) |-> IF i > count THEN <<>> ELSE out[i]]

\* The whole function: the loop, count = vector_index, the clearing of the
\* slots from count on, return valid.
parse_result(header, out, s, command) ==
    LET r == parse_loop(header, out, s, command, 0, 0, valid_init)
        count == r.vector_index
    IN  [strings |-> IF r.threw \/ r.asserted THEN r.strings
                     ELSE discard_from(r.strings, count),
         count |-> count, valid |-> r.valid,
         status |-> r.status, status_index |-> r.status_index, threw |-> r.threw,
         asserted |-> r.asserted, cursors |-> r.cursors,
         string_index |-> r.string_index]

\* teseo.cpp
parse_multiline_reply(out, s, command) == parse_result(FALSE, out, s, command)

\* teseo.h (the older, inline definition)
parse_multiline_reply_h(out, s, command) == parse_result(TRUE, out, s, command)

----------------------------------------------------------------------------
(* Inputs of the model: reply buffers and output containers. *)

RECURSIVE Concat(_)
Concat(ss) == IF ss = <<>> THEN <<>> ELSE Head(ss) \o Concat(Tail(ss))

SeqsUpTo(S, n) == UNION { [1..k -> S] : k \in 0..n }

OtherName(c) == IF c = "gll" THEN "gsv" ELSE "gll"

\* a data sentence "$GP<signature><k>\r\n"
Sentence(signature, k) == <<"$", "G", "P">> \o signature \o <<k>> \o CRLF

\* a terminated sentence shorter than 7 bytes
ShortSentence == <<"$", "G", "P">> \o CRLF

\* the sentences of the generated replies: a well-formed one, one that is too
\* short, one with the signature of another command
Sentences(c) ==
    { Sentence(Command(c).second, "1"),
      ShortSentence, Sentence(Command(OtherName(c)).second, "1") }

\* what follows the last generated sentence: nothing, an echo of the request
\* (bare, with a suffix, with a suffix and a terminator), the echo of another
\* request, an unterminated data sentence, a single byte
Tails(c) ==
    { <<>>,
      request_prefix(Command(c)),
      request_prefix(Command(c)) \o <<"*">>,
      request_prefix(Command(c)) \o <<"*">> \o CRLF,
      request_prefix(Command(OtherName(c))) \o <<"*">>,
      request_prefix(Command(OtherName(c))) \o <<"*">> \o CRLF,
      <<"$", "G", "P">> \o Command(c).second \o <<"3">>,
      <<"X">> }

WireBuffers(c) ==
    { Concat(ss) \o t : ss \in SeqsUpTo(Sentences(c), MaxSentences), t \in Tails(c) }

Spaces7 == <<" ", " ", " ", " ", " ", " ", " ">>

WsChunks == { <<" ">>, <<CR>>, <<LF>>, CRLF, Spaces7 }

\* buffers made of spaces, CR and LF only (the empty buffer included)
WsBuffers == { Concat(ws) : ws \in SeqsUpTo(WsChunks, MaxWs) }

\* a sentence left in a container by its owner
StaleSentence == Sentence(gll.second, "9")

\* containers of every capacity, each slot empty or holding an old sentence
Containers == UNION { [1..k -> {<<>>, StaleSentence}] : k \in 0..MaxCap }

----------------------------------------------------------------------------
(* State. *)

idle == <<"idle", 0>>

NoOp == [op |-> "none", cmd |-> "gll", slot |-> "none", s |-> <<>>, cap |-> 0,
         valid |-> FALSE, count |-> 0, status |-> FALSE, status_index |-> 0,
         threw |-> FALSE, asserted |-> FALSE, cursors |-> <<>>,
         string_index |-> 0, text |-> <<>>,
         before |-> <<>>, done |-> TRUE]

\* teseo() : single_line_parser() {}  and  Callback() : callback_(nullptr) {}
Init ==
    /\ writer = "nullptr"
    /\ reader = "nullptr"
    /\ resetter = "nullptr"
    /\ single_line_parser = <<<<>>, <<>>>>
    /\ strings = <<<<>>, <<>>>>
    /\ pc = idle
    /\ calls = <<>>
    /\ last = NoOp

driver == <<writer, reader, resetter, single_line_parser, pc, calls>>

----------------------------------------------------------------------------
(* Direct calls of the static parser on a caller-owned container. *)

\* Between two operations the caller takes the results of the last one; the
\* container stays as the operation left it.
caller_takes ==
    /\ pc = idle
    /\ last # NoOp
    /\ last' = NoOp
    /\ UNCHANGED <<driver, strings>>

\* The caller supplies another container for the next calls, of any
\* capacity, with whatever it holds.
caller_buffer ==
    /\ pc = idle
    /\ last = NoOp
    /\ \E c \in Containers : strings' = c
    /\ UNCHANGED <<driver, last>>

\* what an operation that parsed a reply leaves in `last`: its inputs (the
\* command, the reply s, the container as it was), its outputs, and whether it
\* returned
parse_record(op, c, s, before, r, text) ==
    [op |-> op, cmd |-> c, slot |-> "none", s |-> s, cap |-> Len(before),
     valid |-> r.valid,
     count |-> r.count, status |-> r.status, status_index |-> r.status_index,
     threw |-> r.threw, asserted |-> r.asserted, cursors |-> r.cursors,
     string_index |-> r.string_index,
     text |-> text, before |-> before, done |-> ~r.threw /\ ~r.asserted]

\* teseo::parse_multiline_reply(strings, s, count, command)  (teseo.cpp)
parse ==
    /\ pc = idle
    /\ last = NoOp
    /\ \E c \in CommandNames : \E s \in WireBuffers(c) \cup WsBuffers :
         LET r == parse_multiline_reply(strings, s, Command(c))
         IN  /\ strings' = r.strings
             /\ last' = parse_record("parse", c, s, strings, r, <<>>)
    /\ UNCHANGED driver

\* teseo::parse_multiline_reply(strings, s, count, command)  (teseo.h)
parse_h ==
    /\ pc = idle
    /\ last = NoOp
    /\ \E c \in CommandNames : \E s \in WireBuffers(c) :
         LET r == parse_multiline_reply_h(strings, s, Command(c))
         IN  /\ strings' = r.strings
             /\ last' = parse_record("parse_h", c, s, strings, r, <<>>)
    /\ UNCHANGED driver

NextParse == caller_takes \/ caller_buffer \/ parse \/ parse_h

SpecParse == Init /\ [][NextParse]_vars

----------------------------------------------------------------------------
(* Handler slots: callbackmanager Callback<R, Args...>. *)

\* set(std::function<R(Args...)> callback) { callback_ = & callback; }
\* The parameter is passed by value: callback_ is left holding the address of
\* an object that is destroyed when set returns.
Callback_set == "dangling"

Callback_unset_kept == "dangling"

\* unset() { callback_ = nullptr; }
Callback_unset == "nullptr"

\* is_set() { return (callback_ != nullptr); }   (teseo.cpp calls it armed())
armed(callback_) == callback_ # "nullptr"

call_outcomes_asserted(callback_) ==
    IF callback_ = "nullptr" THEN {"assert"} ELSE {"invoked", "fault"}

\* call(args...): returns without calling anything when callback_ is nullptr;
\* otherwise (*callback_)(args...) goes through the dangling pointer, which
\* is undefined: the handler runs, or the program faults.
call_outcomes(callback_) ==
    IF callback_ = "nullptr" THEN {"skipped"} ELSE {"invoked", "fault"}

\* assert(slot.armed()); slot.call(...);
asserted_call(callback_) ==
    IF ~NDEBUG /\ ~armed(callback_) THEN {"assert"} ELSE call_outcomes(callback_)

Continues(end) == end \in {"invoked", "skipped"}

WriteCall(text) == [h |-> "write", arg |-> text]
ReadCall == [h |-> "read", arg |-> <<>>]
ResetCall == [h |-> "reset", arg |-> <<>>]

\* teseo::write(s): how it ends and the handler call it made
write(text) ==
    { [end |-> o, calls |-> IF o = "invoked" THEN <<WriteCall(text)>> ELSE <<>>]
        : o \in asserted_call(writer) }

\* teseo::read(s): how it ends, the handler call it made and s afterwards
\* (the handler stores one of `replies` in s)
read(s, replies) ==
    { [end |-> "invoked", calls |-> <<ReadCall>>, s |-> r]
        : r \in IF "invoked" \in asserted_call(reader) THEN replies ELSE {} }
    \cup
    { [end |-> o, calls |-> <<>>, s |-> s]
        : o \in asserted_call(reader) \ {"invoked"} }

aborted == <<"aborted", 0>>
crashed == <<"crashed", 0>>

\* the program stops: a failed assert aborts it, a fault crashes it
Stopped(op, c, end, cs) ==
    /\ pc' = IF end = "assert" THEN aborted ELSE crashed
    /\ calls' = cs
    /\ last' = [NoOp EXCEPT !.op = op, !.cmd = c, !.done = FALSE]
    /\ UNCHANGED <<writer, reader, resetter, single_line_parser, strings>>

Slots == {"writer", "reader", "resetter"}

Slot(name) ==
    CASE name = "writer" -> writer
      [] name = "reader" -> reader
      [] name = "resetter" -> resetter

HandlerCall(name) ==
    CASE name = "writer" -> WriteCall(<<>>)
      [] name = "reader" -> ReadCall
      [] name = "resetter" -> ResetCall

\* The embedder calling a slot itself: the driver hands out references to its
\* three slots (getWriteCallback(), getReadCallback(), getResetCallback()),
\* and Callback::call is public.
Callback_call ==
    /\ pc = idle /\ last = NoOp
    /\ \E name \in Slots : \E o \in call_outcomes(Slot(name)) :
         IF ~Continues(o)
         THEN /\ pc' = IF o = "assert" THEN aborted ELSE crashed
              /\ calls' = <<>>
              /\ last' = [NoOp EXCEPT !.op = "call", !.slot = name, !.done = FALSE]
         ELSE /\ pc' = pc
              /\ calls' = IF o = "invoked" THEN <<HandlerCall(name)>> ELSE <<>>
              /\ last' = [NoOp EXCEPT !.op = "call", !.slot = name]
    /\ UNCHANGED <<writer, reader, resetter, single_line_parser, strings>>

\* what a set or an unset leaves in `last`: the operation and the slot it
\* was made on
slot_record(op, name) == [NoOp EXCEPT !.op = op, !.slot = name]

\* getWriteCallback().set(handler)
set_writer ==
    /\ pc = idle /\ last = NoOp
    /\ writer' = Callback_set
    /\ last' = slot_record("set", "writer")
    /\ UNCHANGED <<reader, resetter, single_line_parser, strings, pc, calls>>

unset_writer ==
    /\ pc = idle /\ last = NoOp
    /\ writer' = Callback_unset
    /\ last' = slot_record("unset", "writer")
    /\ UNCHANGED <<reader, resetter, single_line_parser, strings, pc, calls>>

set_reader ==
    /\ pc = idle /\ last = NoOp
    /\ reader' = Callback_set
    /\ last' = slot_record("set", "reader")
    /\ UNCHANGED <<writer, resetter, single_line_parser, strings, pc, calls>>

unset_reader ==
    /\ pc = idle /\ last = NoOp
    /\ reader' = Callback_unset
    /\ last' = slot_record("unset", "reader")
    /\ UNCHANGED <<writer, resetter, single_line_parser, strings, pc, calls>>

set_resetter ==
    /\ pc = idle /\ last = NoOp
    /\ resetter' = Callback_set
    /\ last' = slot_record("set", "resetter")
    /\ UNCHANGED <<writer, reader, single_line_parser, strings, pc, calls>>

unset_resetter ==
    /\ pc = idle /\ last = NoOp
    /\ resetter' = Callback_unset
    /\ last' = slot_record("unset", "resetter")
    /\ UNCHANGED <<writer, reader, single_line_parser, strings, pc, calls>>

----------------------------------------------------------------------------
(* Request orchestration: ask_nmea, ask_nmea_multiple and the six named     *)
(* operations.                                                              *)

GllSentence == <<"$", "G", "P", "G", "L", "L", ",", "4", "9", "1", "6", ".", "4", "5", ",", "N", ",", "1", "2", "3", "1", "1", ".", "1", "2", ",", "W", "*", "5", "0", CR, LF>>

\* one GLL sentence and the unterminated echo of the GLL request
GllReply == GllSentence \o request_prefix(gll) \o <<"*">>

\* what the Read handler may return to a request for command c
Replies(c) ==
    { <<>>,
      Sentence(Command(c).second, "1"),
      Sentence(Command(c).second, "1") \o request_prefix(Command(c)) \o <<"*">>,
      Sentence(Command(c).second, "1") \o request_prefix(Command(c)) \o <<"*">> \o CRLF,
      Sentence(Command(c).second, "1") \o Sentence(Command(c).second, "2")
          \o request_prefix(Command(c)) \o <<"*">> \o CRLF,
      ShortSentence \o request_prefix(Command(c)) \o <<"*">> \o CRLF,
      Sentence(Command(OtherName(c)).second, "1")
          \o request_prefix(Command(c)) \o <<"*">> \o CRLF }
    \cup (IF c = "gll" THEN {GllReply} ELSE {})

ask_nmea_text_raw(p, s) == s

\* s = single_line_parser[0];
ask_nmea_text(p, s) == p.strings[1]

\* bool teseo::ask_nmea(const nmea_rr& command, std::string& s)
ask_nmea(op, c) ==
    /\ pc = idle /\ last = NoOp
    /\ \E w \in write(Command(c).first) :
         IF ~Continues(w.end) THEN Stopped(op, c, w.end, w.calls)
         ELSE \E r \in read(<<>>, Replies(c)) :
            IF ~Continues(r.end) THEN Stopped(op, c, r.end, w.calls \o r.calls)
            ELSE LET p == parse_multiline_reply(single_line_parser, r.s, Command(c))
                 IN  /\ single_line_parser' = p.strings
                     /\ last' = parse_record(op, c, r.s, single_line_parser, p,
                                             ask_nmea_text(p, r.s))
                     /\ calls' = w.calls \o r.calls
                     /\ UNCHANGED <<writer, reader, resetter, strings, pc>>

\* bool teseo::ask_nmea_multiple(const nmea_rr& command,
\*                               std::span<std::string> strings, unsigned int& count)
ask_nmea_multiple(op, c) ==
    /\ pc = idle /\ last = NoOp
    /\ \E w \in write(Command(c).first) :
         IF ~Continues(w.end) THEN Stopped(op, c, w.end, w.calls)
         ELSE \E r \in read(<<>>, Replies(c)) :
            IF ~Continues(r.end) THEN Stopped(op, c, r.end, w.calls \o r.calls)
            ELSE LET p == parse_multiline_reply(strings, r.s, Command(c))
                 IN  /\ strings' = p.strings
                     /\ last' = parse_record(op, c, r.s, strings, p, <<>>)
                     /\ calls' = w.calls \o r.calls
                     /\ UNCHANGED <<writer, reader, resetter, single_line_parser, pc>>

ask_gll == ask_nmea("ask_gll", "gll")

ask_gsv_single == ask_nmea("ask_gsv", "gsv")

ask_gsv == ask_nmea_multiple("ask_gsv", "gsv")

ask_gsa == ask_nmea_multiple("ask_gsa", "gsa")

ask_gga_as_gll == ask_nmea("ask_gga", "gll")

ask_gga == ask_nmea("ask_gga", "gga")

ask_rmc == ask_nmea("ask_rmc", "rmc")

ask_vtg == ask_nmea("ask_vtg", "vtg")

----------------------------------------------------------------------------
(* The older copy of the driver that follows the module interface in        *)
(* teseo_iface.cpp: its registry, and its ask_nmea with the four operations *)
(* that use it.  It includes teseo.h, whose parse_multiline_reply is the    *)
(* inline one.                                                              *)

iface_gll == [first  |-> <<"$", "P", "S", "T", "M", "N", "M", "E", "A", "R", "E", "Q", "U", "E", "S", "T", ",", "1", "0", "0", "0", "0", "0", ",", "0", LF, CR>>,
              second |-> <<"G", "L", "L", ",">>]

iface_gsv == [first  |-> <<"$", "P", "S", "T", "M", "N", "M", "E", "A", "R", "E", "Q", "U", "E", "S", "T", ",", "8", "0", "0", "0", "0", ",", "0", LF, CR>>,
              second |-> <<"G", "S", "V", ",">>]

iface_gsa == [first  |-> <<"$", "P", "S", "T", "M", "N", "M", "E", "A", "R", "E", "Q", "U", "E", "S", "T", ",", "4", ",", "0", LF, CR>>,
              second |-> <<"G", "S", "A", ",">>]

iface_gga == [first  |-> <<"$", "P", "S", "T", "M", "N", "M", "E", "A", "R", "E", "Q", "U", "E", "S", "T", ",", "2", ",", "0", LF, CR>>,
              second |-> <<"G", "G", "A", ",">>]

iface_rmc == [first  |-> <<"$", "P", "S", "T", "M", "N", "M", "E", "A", "R", "E", "Q", "U", "E", "S", "T", ",", "4", "0", ",", "0", LF, CR>>,
              second |-> <<"R", "M", "C", ",">>]

iface_vtg == [first  |-> <<"$", "P", "S", "T", "M", "N", "M", "E", "A", "R", "E", "Q", "U", "E", "S", "T", ",", "1", "0", ",", "0", LF, CR>>,
              second |-> <<"V", "T", "G", ",">>]

iface_Command(name) ==
    CASE name = "gll" -> iface_gll
      [] name = "gsv" -> iface_gsv
      [] name = "gsa" -> iface_gsa
      [] name = "gga" -> iface_gga
      [] name = "rmc" -> iface_rmc
      [] name = "vtg" -> iface_vtg

\* bool teseo::ask_nmea(const nmea_rr& command, std::string& s), reached
\* through ask_gll, ask_gga, ask_rmc and ask_vtg
iface_ask_nmea ==
    /\ pc = idle /\ last = NoOp
    /\ \E c \in {"gll", "gga", "rmc", "vtg"} :
       \E w \in write(iface_Command(c).first) :
         IF ~Continues(w.end) THEN Stopped("iface_ask_nmea", c, w.end, w.calls)
         ELSE \E r \in read(<<>>, Replies(c)) :
            IF ~Continues(r.end)
            THEN Stopped("iface_ask_nmea", c, r.end, w.calls \o r.calls)
            ELSE LET p == parse_multiline_reply_h(single_line_parser, r.s,
                                                  iface_Command(c))
                 IN  /\ single_line_parser' = p.strings
                     /\ last' = parse_record("iface_ask_nmea", c, r.s,
                                             single_line_parser, p,
                                             ask_nmea_text(p, r.s))
                     /\ calls' = w.calls \o r.calls
                     /\ UNCHANGED <<writer, reader, resetter, strings, pc>>

----------------------------------------------------------------------------
(* teseo::init *)

\* the five commands init writes, in the order of its write statements
InitCommands ==
    << <<"$", "P", "S", "T", "M", "G", "P", "S", "S", "U", "S", "P", "E", "N", "D", CR, LF>>,
       <<"$", "P", "S", "T", "M", "C", "F", "G", "M", "S", "G", "L", ",", "0", ",", "1", ",", "0", ",", "0", CR, LF>>,
       <<"$", "P", "S", "T", "M", "C", "F", "G", "M", "S", "G", "L", ",", "3", ",", "1", ",", "0", ",", "0", CR, LF>>,
       <<"$", "P", "S", "T", "M", "S", "E", "T", "P", "A", "R", ",", "1", "2", "2", "7", ",", "1", ",", "2", CR, LF>>,
       <<"$", "P", "S", "T", "M", "G", "P", "S", "R", "E", "S", "T", "A", "R", "T", CR, LF>> >>

\* the token the restart-wait loop looks for
RestartToken == <<"$", "P", "S", "T", "M", "G", "P", "S", "R", "E", "S", "T", "A", "R", "T">>

\* what the Read handler may return during init: nothing, the restart echo,
\* or some other sentence
InitReplies ==
    { <<>>, RestartToken \o <<"*">> \o CRLF, Sentence(gll.second, "1") }

init_asserts_no_reset == armed(writer) /\ armed(reader)

\* assert(writer.armed()); assert(reader.armed()); assert(resetter.armed());
init_asserts == armed(writer) /\ armed(reader) /\ armed(resetter)

\* init in progress (done = FALSE) or returned; s is the local std::string s
InitRecord(done, s) == [NoOp EXCEPT !.op = "init", !.done = done, !.s = s]

\* init() up to and including resetter.call()
init_enter ==
    /\ pc = idle /\ last = NoOp
    /\ IF ~NDEBUG /\ ~init_asserts
       THEN Stopped("init", "gll", "assert", <<>>)
       ELSE \E o \in call_outcomes(resetter) :
              IF ~Continues(o) THEN Stopped("init", "gll", o, <<>>)
              ELSE /\ pc' = <<"init_write", 1>>
                   /\ calls' = IF o = "invoked" THEN <<ResetCall>> ELSE <<>>
                   /\ last' = InitRecord(FALSE, <<>>)
                   /\ UNCHANGED <<writer, reader, resetter, single_line_parser, strings>>

\* the five write(...) statements of init, one per step
init_write ==
    /\ pc[1] = "init_write"
    /\ \E w \in write(InitCommands[pc[2]]) :
         IF ~Continues(w.end) THEN Stopped("init", "gll", w.end, calls \o w.calls)
         ELSE /\ pc' = IF pc[2] < Len(InitCommands) THEN <<"init_write", pc[2] + 1>>
                                                    ELSE <<"init_read", 0>>
              /\ calls' = calls \o w.calls
              /\ UNCHANGED <<writer, reader, resetter, single_line_parser, strings, last>>

init_loops_nonempty(s) == find(s, RestartToken, 0) = npos

init_loops_or(s) == length(s) # 0 \/ find(s, RestartToken, 0) = npos

\* while (s.length() && s.find("$PSTMGPSRESTART") == std::string::npos)
init_loops(s) == length(s) # 0 /\ find(s, RestartToken, 0) = npos

\* do { read(s); } ...: the read of one iteration; pc[2] counts the reads
\* made, and the model follows the loop for at most MaxReads of them
init_read ==
    /\ pc[1] = "init_read"
    /\ pc[2] < MaxReads
    /\ \E r \in read(last.s, InitReplies) :
         IF ~Continues(r.end) THEN Stopped("init", "gll", r.end, calls \o r.calls)
         ELSE /\ pc' = <<"init_while", pc[2] + 1>>
              /\ last' = InitRecord(FALSE, r.s)
              /\ calls' = calls \o r.calls
              /\ UNCHANGED <<writer, reader, resetter, single_line_parser, strings>>

\* ... while (...): the test after a read; init reads again or returns
init_while ==
    /\ pc[1] = "init_while"
    /\ pc' = IF init_loops(last.s) THEN <<"init_read", pc[2]>> ELSE idle
    /\ last' = InitRecord(~init_loops(last.s), last.s)
    /\ UNCHANGED <<writer, reader, resetter, single_line_parser, strings, calls>>

----------------------------------------------------------------------------
(* The driver in use. *)

Next ==
    \/ set_writer \/ unset_writer
    \/ set_reader \/ unset_reader
    \/ set_resetter \/ unset_resetter
    \/ caller_takes \/ caller_buffer
    \/ Callback_call
    \/ init_enter \/ init_write \/ init_read \/ init_while
    \/ ask_gll \/ ask_gsv \/ ask_gsa \/ ask_gga \/ ask_rmc \/ ask_vtg
    \/ iface_ask_nmea

Spec == Init /\ [][Next]_vars

\* The driver runs in one thread that does not stop between two statements:
\* once a read of the restart-wait loop has returned, the loop test is made.
SpecLive == Spec /\ WF_vars(init_while)

----------------------------------------------------------------------------
(* Vocabulary of the properties, stated on the bytes of the reply and not   *)
(* through the parser: the separator-terminated lines of a buffer, what     *)
(* follows the last of them, and the wire format of a data sentence.        *)

RECURSIVE LinesFrom(_, _)
LinesFrom(s, pos) ==
    LET n == find(s, CRLF, pos)
    IN  IF n = npos THEN <<>>
        ELSE <<SubSeq(s, pos + 1, n + 2)>> \o LinesFrom(s, n + 2)

\* the separator-terminated lines of s, each with its separator, in order
Lines(s) == LinesFrom(s, 0)

\* the bytes after the last separator
TailOf(s) == SubSeq(s, Len(Concat(Lines(s))) + 1, Len(s))

\* length >= 7 and the 4 bytes at offset 3 are the signature
WellFormed(sentence, command) ==
    /\ Len(sentence) >= 7
    /\ SubSeq(sentence, 4, 7) = command.second

\* line i of s is a data sentence: bytes follow its separator
IsDataSentence(s, i) ==
    /\ i \in 1..Len(Lines(s))
    /\ (i < Len(Lines(s)) \/ TailOf(s) # <<>>)

\* the first malformed data sentence of s is line i
FirstMalformedAt(s, command, i) ==
    /\ IsDataSentence(s, i)
    /\ ~WellFormed(Lines(s)[i], command)
    /\ \A j \in 1..(i - 1) : WellFormed(Lines(s)[j], command)

\* s is N well-formed data sentences followed by an unterminated status line
\* that starts with the request without its terminator
RoundTripReply(s, command) ==
    /\ \A i \in 1..Len(Lines(s)) : WellFormed(Lines(s)[i], command)
    /\ starts_with(TailOf(s), request_prefix(command))

IsWhitespace(s) == \A i \in 1..Len(s) : s[i] \in {" ", CR, LF}

Parsed == last.op \in {"parse", "parse_h"} /\ last.done

SlotsEmptyFrom(count) ==
    \A i \in 1..Len(strings) : i > count => strings[i] = <<>>

\* the segment the scan took for the status line
StatusSegment == SubSeq(last.s, last.status_index + 1, Len(last.s))

----------------------------------------------------------------------------
(* Properties of parse_multiline_reply. *)

\* C1 (for a container of at least one slot): a buffer of N <= capacity
\* well-formed data sentences followed by the unterminated status line that
\* echoes the request parses to valid = true and count = N, with every slot
\* from N on empty.
C1_RoundTrip ==
    (/\ Parsed
     /\ last.cap >= 1
     /\ RoundTripReply(last.s, Command(last.cmd))
     /\ Len(Lines(last.s)) <= last.cap)
    => (/\ last.valid
        /\ last.count = Len(Lines(last.s))
        /\ SlotsEmptyFrom(last.count))

\* C3: parse returns valid = true only if the scan reached the status line
\* and that line starts with the request without its terminator.
C3_ValidOnlyByStatus ==
    (Parsed /\ last.valid)
    => (/\ last.status
        /\ starts_with(StatusSegment, request_prefix(Command(last.cmd))))

\* C4: when the reply holds at least `capacity` (>= 1) valid data sentences
\* and the scan uses up its iterations without reaching the status line,
\* parse returns valid = false.
C4_ExhaustedIsInvalid ==
    (/\ Parsed
     /\ last.cap >= 1
     /\ Len(Lines(last.s)) >= last.cap
     /\ \A i \in 1..last.cap : WellFormed(Lines(last.s)[i], Command(last.cmd))
     /\ ~last.status)
    => ~last.valid

\* C5: when the first malformed data sentence of the reply (a terminated
\* line followed by more bytes, shorter than 7 or without the signature at
\* offset 3) is at a position below the capacity, parse returns
\* valid = false and count = 0 and leaves every slot empty.
C5_MalformedResets ==
    (/\ Parsed
     /\ \E i \in 1..last.cap : FirstMalformedAt(last.s, Command(last.cmd), i))
    => (/\ ~last.valid
        /\ last.count = 0
        /\ SlotsEmptyFrom(0))

\* a malformed second sentence, after a well-formed first one and before
\* more bytes, in a container that can hold both
C5_Witness ==
    /\ Parsed
    /\ last.cap >= 2
    /\ FirstMalformedAt(last.s, Command(last.cmd), 2)
    /\ ~last.valid
    /\ last.count = 0

\* C6 as stated: whenever parse returns valid = false, count is 0.
C6_InvalidCountZero ==
    (Parsed /\ ~last.valid) => last.count = 0

\* C6 amended: when parse returns valid = false, count is 0 unless the scan
\* reached the status line and that line does not echo the request; count is
\* then the number of data sentences stored before the status line.
C6_InvalidCountZeroOrStatus ==
    (Parsed /\ ~last.valid)
    => \/ last.count = 0
       \/ /\ last.status
          /\ ~starts_with(StatusSegment, request_prefix(Command(last.cmd)))
          /\ last.count <= Len(Lines(last.s))
          /\ \A i \in 1..last.count :
                /\ strings[i] = Lines(last.s)[i]
                /\ WellFormed(strings[i], Command(last.cmd))

\* a status line that does not echo the request, after a stored sentence
C6_Witness ==
    /\ Parsed
    /\ ~last.valid
    /\ last.status
    /\ last.count >= 1

\* C7: an empty buffer and a buffer of spaces, CR and LF only parse to
\* valid = false and count = 0, for every capacity and descriptor.
C7_WhitespaceInvalid ==
    (Parsed /\ IsWhitespace(last.s))
    => (~last.valid /\ last.count = 0)

\* a whitespace line of 7 bytes or more, followed by more whitespace and
\* scanned as a data sentence
C7_Witness ==
    /\ Parsed
    /\ last.cap >= 1
    /\ IsWhitespace(last.s)
    /\ Len(Lines(last.s)) >= 1
    /\ Len(Lines(last.s)[1]) >= 7
    /\ TailOf(last.s) # <<>>
    /\ ~last.status
    /\ ~last.valid
    /\ last.count = 0

\* C8: after a parse call on a container with any previous contents, every
\* slot from count on is empty.
C8_TailCleared ==
    Parsed => SlotsEmptyFrom(last.count)

\* a slot that held a sentence before the call and is at or past count
C8_Witness ==
    /\ Parsed
    /\ \E i \in 1..Len(strings) :
          /\ i > last.count
          /\ last.before[i] # <<>>
          /\ strings[i] = <<>>

\* C9 as stated: with capacity 0 and a non-empty reply, count = 0 and valid
\* is true exactly when the buffer is, from offset 0, the status line that
\* echoes the request.
C9_ZeroCapacityStatus ==
    (Parsed /\ last.cap = 0 /\ last.s # <<>>)
    => (/\ last.count = 0
        /\ last.valid <=>
             (/\ \A i \in 1..Len(Lines(last.s)) : ~IsDataSentence(last.s, i)
              /\ starts_with(last.s, request_prefix(Command(last.cmd)))))

\* C9 amended: with capacity 0, parse returns count = 0 and valid = false
\* for every reply.
C9_ZeroCapacityInvalid ==
    (Parsed /\ last.cap = 0)
    => (last.count = 0 /\ ~last.valid)

\* capacity 0 and a buffer that is exactly the echo of the request
C9_Witness ==
    /\ Parsed
    /\ last.cap = 0
    /\ last.s = request_prefix(Command(last.cmd)) \o <<"*">> \o CRLF
    /\ ~last.valid

----------------------------------------------------------------------------
(* Properties of the driver. *)

\* C2: with the Write and Read slots armed and the Read handler returning one
\* GLL data sentence followed by the unterminated status line
\* "$PSTMNMEAREQUEST,100000,0*", ask_gll returns valid = true and the GLL
\* sentence as its text.
C2_AskGll ==
    (/\ last.op = "ask_gll"
     /\ last.done
     /\ armed(writer) /\ armed(reader)
     /\ Len(Lines(last.s)) = 1
     /\ WellFormed(Lines(last.s)[1], gll)
     /\ TailOf(last.s) = request_prefix(gll) \o <<"*">>)
    => (last.valid /\ last.text = Lines(last.s)[1])

\* C10: when init is called with the Write, Read or Reset slot unarmed, it
\* stops on the failed assertion before any handler is invoked.
C10_InitAsserts ==
    (last.op = "init" /\ ~(armed(writer) /\ armed(reader) /\ armed(resetter)))
    => (pc = aborted /\ calls = <<>>)

\* init called with only the Reset slot unarmed
C10_Witness ==
    /\ last.op = "init"
    /\ armed(writer) /\ armed(reader) /\ ~armed(resetter)
    /\ pc = aborted
    /\ calls = <<>>

----------------------------------------------------------------------------
(* Properties of init. *)

\* the five commands of init as the specification names them, without their
\* terminator
C11_Commands ==
    << <<"$", "P", "S", "T", "M", "G", "P", "S", "S", "U", "S", "P", "E", "N", "D">>,
       <<"$", "P", "S", "T", "M", "C", "F", "G", "M", "S", "G", "L", ",", "0", ",", "1", ",", "0", ",", "0">>,
       <<"$", "P", "S", "T", "M", "C", "F", "G", "M", "S", "G", "L", ",", "3", ",", "1", ",", "0", ",", "0">>,
       <<"$", "P", "S", "T", "M", "S", "E", "T", "P", "A", "R", ",", "1", "2", "2", "7", ",", "1", ",", "2">>,
       <<"$", "P", "S", "T", "M", "G", "P", "S", "R", "E", "S", "T", "A", "R", "T">> >>

\* a command as the Write handler received it, without its last two bytes
Unterminated(call) == SubSeq(call.arg, 1, Len(call.arg) - 2)

AllArmed == armed(writer) /\ armed(reader) /\ armed(resetter)

InInitLoop == pc[1] \in {"init_read", "init_while"}

\* init is past its five write statements, or has stopped
PastWrites == pc[1] # "init_write"

\* C11: in every run of init with all slots armed the handler calls are, in
\* this order, Reset once, then the five writes suspend, clear UART message
\* list, clear I2C message list, disable echo, restart, and reads only after
\* them: the first six calls are these, every later call is a read, and no
\* run is past the writes or over with fewer than these six calls.
C11_InitOrder ==
    (last.op = "init" /\ AllArmed)
    => (/\ \A i \in 1..Len(calls) :
              /\ (i = 1) => calls[i] = ResetCall
              /\ (i \in 2..6) => (/\ calls[i].h = "write"
                                  /\ Unterminated(calls[i]) = C11_Commands[i - 1])
              /\ (i > 6) => calls[i] = ReadCall
        /\ PastWrites => Len(calls) >= 6)

\* the restart echo token, as the specification names it
C12_Token == <<"$", "P", "S", "T", "M", "G", "P", "S", "R", "E", "S", "T", "A", "R", "T">>

Contains(s, pat) ==
    \E i \in 1..(Len(s) - Len(pat) + 1) : SubSeq(s, i, i + Len(pat) - 1) = pat

\* a reply that ends the restart wait: empty, or holding the token
EndsWait(s) == s = <<>> \/ Contains(s, C12_Token)

InitReturned == pc = idle /\ last.op = "init" /\ last.done

\* C12: once a read of the restart-wait loop has returned an empty buffer or
\* a reply that contains "$PSTMGPSRESTART", init eventually returns.
C12_InitReturns ==
    (pc[1] = "init_while" /\ EndsWait(last.s)) ~> InitReturned

\* init returned on an empty buffer, read after a reply that kept it waiting
C12_Witness ==
    /\ InitReturned
    /\ AllArmed
    /\ last.s = <<>>
    /\ Len(calls) = 8

\* C13: init returns only after a read (at least one is made) whose buffer is
\* empty or contains the token, and it returns right after the first such
\* read: while it is in the loop, the reads made so far returned non-empty
\* buffers without the token, and as long as that is so it has not returned.
C13_ReturnsOnFirstEnd ==
    (last.op = "init")
    => (/\ last.done => (/\ \E i \in 1..Len(calls) : calls[i] = ReadCall
                         /\ EndsWait(last.s))
        /\ (pc[1] = "init_read" /\ pc[2] >= 1) => ~EndsWait(last.s)
        /\ (pc[1] = "init_while" /\ ~EndsWait(last.s)) => ~last.done
        /\ InInitLoop => ~last.done)

\* init still waiting after a reply that is not empty and has no token
C13_Witness ==
    /\ last.op = "init"
    /\ pc = <<"init_read", 1>>
    /\ last.s # <<>>
    /\ ~Contains(last.s, C12_Token)
    /\ ~last.done

----------------------------------------------------------------------------
(* Properties of the requests. *)

SingleOps == {"ask_gll", "ask_gga", "ask_rmc", "ask_vtg"}

MultipleOps == {"ask_gsv", "ask_gsa"}

AskOps == SingleOps \cup MultipleOps

\* the container the request parsed into
Parsed_into == IF last.op \in SingleOps THEN single_line_parser ELSE strings

\* the request is over: it returned or the program stopped in it
RequestOver == last.op \in AskOps /\ pc \in {idle, aborted, crashed}

\* C14: every request made with the Write and Read slots armed makes one
\* call of the Write handler, with the request of its descriptor, then one
\* call of the Read handler, then parses that reply and returns, whether the
\* reply is valid or not; it makes no other handler call, and the sentences
\* it stored are lines of the reply read in that call.
C14_OneCycle ==
    (RequestOver /\ armed(writer) /\ armed(reader))
    => (/\ calls = <<WriteCall(Command(last.cmd).first), ReadCall>>
        /\ last.done
        /\ last.count <= Len(Lines(last.s))
        /\ \A i \in 1..last.count : Parsed_into[i] = Lines(last.s)[i])

\* C15: a request made while the Write slot or the Read slot is unarmed
\* stops on a failed assertion and returns no parsed result.
C15_UnarmedAsserts ==
    (RequestOver /\ ~(armed(writer) /\ armed(reader)))
    => (pc = aborted /\ ~last.done)

----------------------------------------------------------------------------
(* Properties of the handler slots. *)

\* a slot was invoked directly while it was unarmed
UnarmedCall == last.op = "call" /\ ~armed(Slot(last.slot))

\* C16 as stated: invoking an unarmed slot is asserted; the invoke does not
\* complete normally.
C16_UnarmedInvokeAsserted ==
    UnarmedCall => (pc = aborted /\ ~last.done)

\* C16 amended: invoking an unarmed slot calls no handler and returns
\* normally; the assertion is in the driver, which never invokes a slot that
\* is unarmed: a request stops before it calls an unarmed Write or Read
\* slot, init stops before any call when one of the three is unarmed, and
\* neither returns.
C16_UnarmedInvokeReturns ==
    /\ UnarmedCall => (pc = idle /\ last.done /\ calls = <<>>)
    /\ (last.op \in AskOps /\ ~armed(writer)) => (pc = aborted /\ calls = <<>>)
    /\ (last.op \in AskOps /\ ~armed(reader))
         => (~last.done /\ \A i \in 1..Len(calls) : calls[i] # ReadCall)
    /\ (last.op = "init" /\ ~AllArmed) => (pc = aborted /\ calls = <<>>)

\* the unarmed Read slot invoked directly: the call returned
C16_Witness ==
    /\ last.op = "call"
    /\ last.slot = "reader"
    /\ ~armed(reader)
    /\ last.done
    /\ pc = idle

----------------------------------------------------------------------------
(* Properties of the commands. *)

\* the operations in which the driver writes commands
WritingOps == AskOps \cup {"init", "iface_ask_nmea"}

EndsWithCRLF(text) ==
    /\ Len(text) >= 2
    /\ text[Len(text) - 1] = "\r"
    /\ text[Len(text)] = "\n"

\* C17: every command the driver writes ends with the two bytes CR LF, in
\* that order, and every registry signature is exactly 4 bytes long.
C17_Terminators ==
    /\ (last.op \in WritingOps)
         => \A i \in 1..Len(calls) :
               (calls[i].h = "write") => EndsWithCRLF(calls[i].arg)
    /\ \A c \in CommandNames :
          Len(Command(c).second) = 4 /\ Len(iface_Command(c).second) = 4

\* the message number and the signature the specification gives for each
\* named operation
C18_Binding(op) ==
    CASE op = "ask_gll" -> [number |-> <<"1", "0", "0", "0", "0", "0">>, signature |-> <<"G", "L", "L", ",">>]
      [] op = "ask_gsv" -> [number |-> <<"8", "0", "0", "0", "0">>, signature |-> <<"G", "S", "V", ",">>]
      [] op = "ask_gsa" -> [number |-> <<"4">>, signature |-> <<"G", "S", "A", ",">>]
      [] op = "ask_gga" -> [number |-> <<"2">>, signature |-> <<"G", "G", "A", ",">>]
      [] op = "ask_rmc" -> [number |-> <<"4", "0">>, signature |-> <<"R", "M", "C", ",">>]
      [] op = "ask_vtg" -> [number |-> <<"1", "0">>, signature |-> <<"V", "T", "G", ",">>]

\* "$PSTMNMEAREQUEST,<number>,0"
C18_Request(number) ==
    <<"$", "P", "S", "T", "M", "N", "M", "E", "A", "R", "E", "Q", "U", "E", "S", "T", ",">> \o number \o <<",", "0">>

\* the first line of the reply is a data sentence that does not carry the
\* signature at offset 3
C18_ForeignFirst(s, signature) ==
    /\ IsDataSentence(s, 1)
    /\ Len(Lines(s)[1]) >= 7
    /\ SubSeq(Lines(s)[1], 4, 7) # signature

\* C18: each named operation writes the request of its own descriptor and
\* validates against its own signature (ask_gll 100000 and "GLL,", ask_gsv
\* 80000 and "GSV,", ask_gsa 4 and "GSA,", ask_gga 2 and "GGA,", ask_rmc 40
\* and "RMC,", ask_vtg 10 and "VTG,"): what it writes is that request, every
\* sentence it stores carries that signature, and a first data sentence with
\* another signature makes it return valid = false with nothing stored.
\* ask_gll, ask_gga, ask_rmc and ask_vtg parse into the 2-slot scratch buffer
\* and return its slot 0; ask_gsv and ask_gsa parse into the caller's
\* container.
C18_NamedBindings ==
    (last.op \in AskOps)
    => LET b == C18_Binding(last.op)
       IN  /\ \A i \in 1..Len(calls) :
                 (calls[i].h = "write")
                    => Unterminated(calls[i]) = C18_Request(b.number)
           /\ last.done =>
                 (/\ \A i \in 1..last.count :
                        SubSeq(Parsed_into[i], 4, 7) = b.signature
                  /\ C18_ForeignFirst(last.s, b.signature)
                        => (~last.valid /\ last.count = 0)
                  /\ (last.op \in SingleOps)
                        => (last.cap = 2 /\ last.text = single_line_parser[1])
                  /\ (last.op \in MultipleOps)
                        => (last.cap = Len(strings) /\ last.text = <<>>))

\* ask_gga wrote its request and returned a GGA sentence
C18_Witness ==
    /\ last.op = "ask_gga"
    /\ last.done
    /\ last.count >= 1
    /\ SubSeq(last.text, 4, 7) = <<"G", "G", "A", ",">>
    /\ calls[1].arg = C18_Request(<<"2">>) \o CRLF

----------------------------------------------------------------------------
(* Properties of the scan. *)

\* a call of the parser of teseo.cpp, directly or by a request
ParsedCpp == last.op \in AskOps \cup {"parse"} /\ last.done

\* the separator of the segment at the cursor `index` was located, and it
\* ends where the buffer ends
EndsBuffer(s, index) ==
    /\ find(s, CRLF, index) # npos
    /\ find(s, CRLF, index) + 2 = Len(s)

\* C19: the scan takes a segment whose separator it located for the status
\* line exactly when that separator ends at the buffer length, and every
\* other located segment for a data line; and the trailing status line of
\* the wire format, which has no separator after it, is taken for the status
\* line: in a reply of well-formed data sentences that fit the container,
\* followed by the unterminated echo of the request, the scan reaches the
\* status line.
C19_StatusRule ==
    ParsedCpp
    => (/\ (last.status /\ find(last.s, CRLF, last.status_index) # npos)
             => EndsBuffer(last.s, last.status_index)
        /\ \A i \in 1..last.count :
              (i <= Len(Lines(last.s)))
                 => Len(Concat(SubSeq(Lines(last.s), 1, i))) < Len(last.s)
        /\ (/\ last.cap > Len(Lines(last.s))
            /\ RoundTripReply(last.s, Command(last.cmd)))
             => last.status)

\* C20: after parse returns, every slot i below count holds the i-th
\* separator-terminated line of the buffer, separator included, in buffer
\* order, and is well-formed: at least 7 bytes long, with the signature of
\* the descriptor in the 4 bytes at offset 3.
C20_SlotContents ==
    ParsedCpp
    => \A i \in 1..last.count :
          /\ i <= Len(Lines(last.s))
          /\ Parsed_into[i] = Lines(last.s)[i]
          /\ WellFormed(Parsed_into[i], Command(last.cmd))

----------------------------------------------------------------------------
(* Properties of the loop and of the cursor. *)

\* a call of one of the two parsers, whether or not it returned
ParseCalled == last.op \in {"parse", "parse_h"}

\* C21: for every buffer and capacity, parse makes at most `capacity` loop
\* iterations, returns count <= capacity, writes no slot at an index >=
\* capacity (the container keeps its length, and the slots are the ones the
\* caller gave), and the assertion vector_index < maxelements inside the
\* loop never fails.
C21_Bounded ==
    ParseCalled
    => /\ Len(last.cursors) <= last.cap
       /\ last.count <= last.cap
       /\ ~last.asserted
       /\ Len(strings) = last.cap
       /\ DOMAIN strings = DOMAIN last.before

\* parse filled a container: as many iterations as slots, every slot kept
C21_Witness ==
    /\ ParseCalled
    /\ last.cap >= 1
    /\ Len(last.cursors) = last.cap
    /\ last.count = last.cap

\* C22: for every buffer (the empty one and those of one byte included,
\* and those with no separator after the cursor) and every capacity, the
\* cursor of no iteration exceeds the buffer length, nor does the cursor
\* the loop is left with, every substring kept
\* in a slot is the part of the buffer that starts at the cursor of its
\* iteration, and parse returns a flag and a count without throwing
\* std::out_of_range.
C22_CursorInside ==
    ParseCalled
    => /\ \A k \in 1..Len(last.cursors) : last.cursors[k] <= Len(last.s)
       /\ last.string_index <= Len(last.s)
       /\ \A i \in 1..last.count :
             /\ i <= Len(last.cursors)
             /\ last.cursors[i] + Len(strings[i]) <= Len(last.s)
             /\ strings[i] = SubSeq(last.s, last.cursors[i] + 1,
                                    last.cursors[i] + Len(strings[i]))
       /\ ~last.threw
       /\ last.done
       /\ last.valid \in BOOLEAN
       /\ last.count \in 0..last.cap

\* the search found no separator after the cursor of the last iteration,
\* the rest of the buffer was kept as a data sentence, and the cursor
\* wrapped to 1
C22_Witness ==
    /\ ParseCalled
    /\ last.cap >= 1
    /\ last.count = last.cap
    /\ find(last.s, CRLF, last.cursors[last.cap]) = npos
    /\ strings[last.cap] # <<>>
    /\ last.string_index = 1

----------------------------------------------------------------------------
(* Properties of the single-sentence request. *)

\* the single-sentence requests of both copies of the driver
SingleRequests == SingleOps \cup {"iface_ask_nmea"}

\* a single-sentence request returned
SingleOver == last.op \in SingleRequests /\ last.done

\* C23: the text a single-sentence request returns is the content of slot
\* 0 of the scratch buffer after the parse: the first terminated line of
\* the reply when count >= 1, the empty string when count = 0; the reply
\* read from the transport is not what is returned: whenever the reply and
\* slot 0 differ the text is slot 0, and the requests of teseo.cpp never
\* return a non-empty reply as it was read.
C23_TextIsSlot0 ==
    SingleOver
    => /\ last.text = single_line_parser[1]
       /\ last.count >= 1
            => /\ Lines(last.s) # <<>>
               /\ last.text = Lines(last.s)[1]
       /\ last.count = 0 => last.text = <<>>
       /\ last.s # single_line_parser[1] => last.text # last.s
       /\ (last.op \in SingleOps /\ last.s # <<>>) => last.text # last.s

\* a request returned its first data sentence, which is not the whole reply
C23_Witness ==
    /\ SingleOver
    /\ last.count >= 1
    /\ last.text # <<>>
    /\ last.text # last.s

\* the scratch buffer of a driver on which no request was made yet
FreshScratch == <<<<>>, <<>>>>

\* what the request `op` for command c returns for the reply s on a driver
\* on which no request was made yet
FirstResult(op, c, s) ==
    LET p == IF op = "iface_ask_nmea"
             THEN parse_multiline_reply_h(FreshScratch, s, iface_Command(c))
             ELSE parse_multiline_reply(FreshScratch, s, Command(c))
    IN  [text |-> p.strings[1], valid |-> p.valid]

\* C24: in any sequence of single-sentence requests on one driver, what a
\* request returns (text, valid) depends on its descriptor and on the reply
\* read in that call only: it is what the same request returns for the same
\* reply on a driver whose scratch buffer was never used, whatever the
\* earlier requests left in the scratch buffer.
C24_NoCarryOver ==
    SingleOver
    => [text |-> last.text, valid |-> last.valid]
         = FirstResult(last.op, last.cmd, last.s)

\* a request found a sentence of an earlier request in slot 0 of the scratch
\* buffer and returned the empty text
C24_Witness ==
    /\ SingleOver
    /\ last.before[1] # <<>>
    /\ last.text = <<>>

----------------------------------------------------------------------------
(* Properties of the handler slots over sequences of operations. *)

\* the last step was a set or an unset
SlotOps == {"set", "unset"}

\* every slot is unarmed
AllUnarmed == \A n \in Slots : ~armed(Slot(n))

\* after a set the slot is armed, after an unset it is unarmed; a direct
\* call of an unarmed slot made no handler call
C25_AfterOperation ==
    /\ last.op = "set" => armed(Slot(last.slot))
    /\ last.op = "unset" => ~armed(Slot(last.slot))
    /\ (last.op = "call" /\ ~armed(Slot(last.slot))) => calls = <<>>

\* the armed state of a slot changes only in a set or an unset made on it,
\* and a set or an unset leaves the other two slots as they were
C25_OnlyOwnOperations ==
    /\ \A n \in Slots :
          armed(Slot(n))' # armed(Slot(n))
            => (last'.op \in SlotOps /\ last'.slot = n)
    /\ last'.op \in SlotOps
         => \A n \in Slots \ {last'.slot} : Slot(n)' = Slot(n)

\* C25: each of the three slots starts unarmed; in any sequence of
\* operations its armed state is that of the most recent set or unset made
\* on it (a set arms it, an unset disarms it, nothing else changes it, and
\* a set or unset on another slot leaves it as it was); invoking an unarmed
\* slot calls no handler.
C25_SlotHistory ==
    /\ AllUnarmed
    /\ []C25_AfterOperation
    /\ [][C25_OnlyOwnOperations]_vars

\* a set on one slot, made while another slot was armed and the third was
\* not, rearmed a slot that an earlier unset had disarmed
C25_Witness ==
    /\ last.op = "set"
    /\ armed(Slot(last.slot))
    /\ \E n, m \in Slots \ {last.slot} :
          n # m /\ armed(Slot(n)) /\ ~armed(Slot(m))

----------------------------------------------------------------------------
(* What the requests and init leave alone. *)

\* the steps of the requests of both copies of the driver and of init
DriverOps == AskOps \cup {"iface_ask_nmea", "init"}

\* a request or init step leaves the armed state of every slot as it was;
\* a multi-sentence request leaves the scratch buffer as it was; the
\* scratch buffer changes in single-sentence requests only
C26_Step ==
    /\ last'.op \in DriverOps
         => \A n \in Slots : armed(Slot(n))' = armed(Slot(n))
    /\ last'.op \in MultipleOps => single_line_parser' = single_line_parser
    /\ single_line_parser' # single_line_parser => last'.op \in SingleRequests

\* C26: no request and no step of init changes whether a handler slot is
\* armed; ask_gsv and ask_gsa leave the driver's 2-element scratch buffer
\* unchanged; only the single-sentence requests write it.
C26_LeftAlone == [][C26_Step]_vars

\* a multi-sentence request kept sentences in the caller's container while
\* the scratch buffer held the sentence of an earlier single-sentence request
C26_Witness ==
    /\ last.op \in MultipleOps
    /\ last.done
    /\ last.count >= 1
    /\ single_line_parser[1] # <<>>
    /\ strings[1] # single_line_parser[1]

====
